---------------------------- MODULE Spec2Model ----------------------------
(***************************************************************************)
(* The encrypted key vault of nekoton (src/src/crypto/encrypted_key/mod.rs) *)
(* as a state machine: one vault record, the password-taking operations on  *)
(* it, the password rotation and the record codec.                          *)
(*                                                                          *)
(* Byte strings are sequences over 0..255 and text is a sequence of         *)
(* one-character strings.  The external primitives (PBKDF2, ChaCha20-       *)
(* Poly1305, Ed25519) are small algebraic stand-ins with the properties the *)
(* code relies on: the derived key is identified with the (password, salt)  *)
(* pair it is derived from, the AEAD tag binds the key, the nonce and the   *)
(* ciphertext body, and a signature verifies exactly when the public key    *)
(* hashed into it is the one that belongs to the signing secret.            *)
(***************************************************************************)
EXTENDS Integers, Sequences, FiniteSets, TLC

VARIABLES vault, ghost, last

vars == <<vault, ghost, last>>

----------------------------------------------------------------------------
(* Bounds of the model *)

NumRand == 2        \* output streams the random source can give to one call
NumPasswords == 3   \* passwords the callers try

(* Program constants *)

NONCE_LENGTH == 12
CREDENTIAL_LEN == 32
TAG_LENGTH == 16
SECRET_KEY_LENGTH == 32
PUBLIC_KEY_LENGTH == 32
SIGNATURE_LENGTH == 64

----------------------------------------------------------------------------
(* Byte strings *)

RECURSIVE Sum(_)
Sum(s) == IF s = <<>> THEN 0 ELSE Head(s) + Sum(Tail(s))

RECURSIVE WSum(_)
WSum(s) == IF s = <<>> THEN 0 ELSE Len(s) * Head(s) + WSum(Tail(s))

At(s, i) == IF i \in 1..Len(s) THEN s[i] ELSE 0

Ok(v) == [ok |-> TRUE, err |-> "", val |-> v]
Err(e) == [ok |-> FALSE, err |-> e, val |-> <<>>]

----------------------------------------------------------------------------
(* The inputs the callers choose from *)

\* "123", "456", "lol", the empty password and "1"
AllPasswords == << <<49, 50, 51>>, <<52, 53, 54>>, <<108, 111, 108>>, <<>>, <<49>> >>

Passwords == {AllPasswords[i] : i \in 1..NumPasswords}

Names == {"Test key"}

Kinds == {"Legacy", "Labs"}

\* "canyon stage", "acid", and two phrases the deriver rejects: "a1" and the
\* empty phrase.
PhraseCanyon == <<99, 97, 110, 121, 111, 110, 32, 115, 116, 97, 103, 101>>
PhraseAcid == <<97, 99, 105, 100>>
PhraseBad == <<97, 49>>

\* the (mnemonic kind, phrase) pairs a vault is created from
Mnemonics == {<<"Legacy", PhraseCanyon>>, <<"Labs", PhraseAcid>>,
              <<"Legacy", PhraseBad>>, <<"Labs", <<>> >>}

DataSet == {<<108, 111, 108>>, <<>>}

Faults == {"none", "rng1", "rng2", "rng3", "enc1", "enc2"}

----------------------------------------------------------------------------
(* The random source: ring::rand::SystemRandom::fill.  A call of new or of   *)
(* change_password draws three times from one output stream s; the draws of *)
(* an even stream repeat, those of an odd stream differ.                    *)

RandBytes(r, n) == [i \in 1..n |-> (r * 7 + i * 5) % 256]

StreamDraw(s, k) == IF s % 2 = 0 THEN s ELSE s + k

rng_fill(s, k, n, failed) ==
    IF failed THEN Err("FailedToGenerateRandomBytes")
    ELSE Ok(RandBytes(StreamDraw(s, k), n))

----------------------------------------------------------------------------
(* PBKDF2-HMAC-SHA256, collision free: the key is the pair it comes from.   *)

symmetric_key_from_password(password, salt) ==
    [password |-> password, salt |-> salt]

(* ChaCha20-Poly1305: body = plaintext + keystream, then the 16-byte tag.   *)

KeyStream(key, nonce) ==
    (Sum(key.password) + Sum(key.salt) + Sum(nonce)) % 256

Tag(key, nonce, body) ==
    << Len(key.password) % 256, At(key.password, 1), At(key.password, 2),
       At(key.password, 3), Sum(key.password) % 256,
       Len(key.salt) % 256, At(key.salt, 1), At(key.salt, Len(key.salt)),
       WSum(key.salt) % 256,
       Len(nonce) % 256, At(nonce, 1), WSum(nonce) % 256,
       Len(body) % 256, Sum(body) % 256, WSum(body) % 256, 1 >>

Seal(key, nonce, data) ==
    LET k == KeyStream(key, nonce)
        body == [i \in 1..Len(data) |-> (data[i] + k + i) % 256]
    IN  body \o Tag(key, nonce, body)

encrypt(key, nonce, data, failed) ==
    IF failed THEN Err("FailedToEncryptData") ELSE Ok(Seal(key, nonce, data))

decrypt(key, nonce, data) ==
    IF Len(data) < TAG_LENGTH THEN Err("FailedToDecryptData")
    ELSE LET n == Len(data) - TAG_LENGTH
             body == SubSeq(data, 1, n)
             tag == SubSeq(data, n + 1, Len(data))
             k == KeyStream(key, nonce)
         IN  IF tag # Tag(key, nonce, body) THEN Err("FailedToDecryptData")
             ELSE Ok([i \in 1..n |-> (body[i] + 512 - k - i) % 256])

decrypt_secure(key, nonce, data) == decrypt(key, nonce, data)

----------------------------------------------------------------------------
(* Ed25519 over the integers mod 256, byte by byte.                         *)

BasePoint == 3

PublicFrom(secret) == [i \in 1..Len(secret) |-> (secret[i] * BasePoint) % 256]

SecretKey_from_bytes(bytes) ==
    IF Len(bytes) # SECRET_KEY_LENGTH THEN Err("InvalidPrivateKey") ELSE Ok(bytes)

PublicKey_from_bytes(bytes) ==
    IF Len(bytes) # PUBLIC_KEY_LENGTH THEN Err("codec") ELSE Ok(bytes)

\* an odd challenge, so that it is invertible mod 256
Challenge(R, A, M) == (2 * (WSum(R) + WSum(A) + WSum(M) + Len(M)) + 1) % 256

Keypair_sign(pair, data) ==
    LET r == (Sum(pair.secret) + WSum(data) + 1) % 256
        R == [i \in 1..SECRET_KEY_LENGTH |-> (r * BasePoint) % 256]
        h == Challenge(R, pair.public, data)
    IN  R \o [i \in 1..SECRET_KEY_LENGTH |-> (r + h * pair.secret[i]) % 256]

Verify(public, data, sig) ==
    /\ Len(sig) = SIGNATURE_LENGTH
    /\ Len(public) = PUBLIC_KEY_LENGTH
    /\ LET R == SubSeq(sig, 1, 32)
           s == SubSeq(sig, 33, 64)
           h == Challenge(R, public, data)
       IN  \A i \in 1..32 : (s[i] * BasePoint) % 256 = (R[i] + h * public[i]) % 256

----------------------------------------------------------------------------
(* The mnemonic deriver (crate::crypto::mnemonic::derive_from_phrase).      *)

IsWordByte(b) == b = 32 \/ b \in 97..122

KindTweak(account_type) == IF account_type = "Legacy" THEN 0 ELSE 1

derive_from_phrase(phrase, account_type) ==
    IF phrase = <<>> \/ \E i \in 1..Len(phrase) : ~IsWordByte(phrase[i])
    THEN Err("InvalidMnemonic")
    ELSE LET w == WSum(phrase) + KindTweak(account_type)
             secret == [i \in 1..SECRET_KEY_LENGTH |-> (w + 2 * i) % 256]
         IN  Ok([secret |-> secret, public |-> PublicFrom(secret)])

----------------------------------------------------------------------------
(* Secret-bearing temporaries: what an operation held and in which          *)
(* container; only some containers wipe their bytes when dropped.           *)

Temp(what, container) == [what |-> what, container |-> container]

Zeroizing == {"SecVec", "SecretKey", "Keypair", "ChaCha20Poly1305"}

Unwiped(temps) == {t \in temps : t.container \notin Zeroizing}

\* symmetric_key_from_password fills a SecVec and returns a copy as a Key
KeyTemps == {Temp("pbkdf2_hash", "SecVec"), Temp("derived_key", "GenericArray"),
             Temp("cipher_key", "ChaCha20Poly1305")}

----------------------------------------------------------------------------
(* EncryptedKey *)

NoVault == [none |-> TRUE]

Outcome(res, temps) ==
    [ok |-> res.ok, err |-> res.err, val |-> res.val, leaked |-> Unwiped(temps)]

\* a new that seals both plaintexts under the one nonce it drew first
new_one_nonce(name, password, account_type, phrase, rng, fault) ==
    LET private_key_nonce == rng_fill(rng, 1, NONCE_LENGTH, fault = "rng1")
        salt == rng_fill(rng, 3, CREDENTIAL_LEN, fault = "rng3")
        key == symmetric_key_from_password(password, salt.val)
        keypair == derive_from_phrase(phrase, account_type)
        encrypted_private_key ==
            encrypt(key, private_key_nonce.val, keypair.val.secret, fault = "enc1")
        encrypted_seed_phrase ==
            encrypt(key, private_key_nonce.val, phrase, fault = "enc2")
    IN  IF ~private_key_nonce.ok THEN Outcome(private_key_nonce, {})
        ELSE IF fault = "rng2" THEN Outcome(Err("FailedToGenerateRandomBytes"), {})
        ELSE IF ~salt.ok THEN Outcome(salt, {})
        ELSE IF ~keypair.ok THEN Outcome(keypair, KeyTemps)
        ELSE IF ~encrypted_private_key.ok
             THEN Outcome(encrypted_private_key,
                          KeyTemps \cup {Temp("keypair", "Keypair")})
        ELSE IF ~encrypted_seed_phrase.ok
             THEN Outcome(encrypted_seed_phrase,
                          KeyTemps \cup {Temp("keypair", "Keypair")})
        ELSE Outcome(Ok([account_type |-> account_type,
                         name |-> name,
                         pubkey |-> keypair.val.public,
                         encrypted_private_key |-> encrypted_private_key.val,
                         private_key_nonce |-> private_key_nonce.val,
                         encrypted_seed_phrase |-> encrypted_seed_phrase.val,
                         seed_phrase_nonce |-> private_key_nonce.val,
                         salt |-> salt.val]),
                     KeyTemps \cup {Temp("keypair", "Keypair")})

\* a new that derives the key pair before it draws the nonces and the salt
new_derive_first(name, password, account_type, phrase, rng, fault) ==
    LET keypair == derive_from_phrase(phrase, account_type)
        private_key_nonce == rng_fill(rng, 1, NONCE_LENGTH, fault = "rng1")
        seed_phrase_nonce == rng_fill(rng, 2, NONCE_LENGTH, fault = "rng2")
        salt == rng_fill(rng, 3, CREDENTIAL_LEN, fault = "rng3")
        key == symmetric_key_from_password(password, salt.val)
        encrypted_private_key ==
            encrypt(key, private_key_nonce.val, keypair.val.secret, fault = "enc1")
        encrypted_seed_phrase ==
            encrypt(key, seed_phrase_nonce.val, phrase, fault = "enc2")
    IN  IF ~keypair.ok THEN Outcome(keypair, {})
        ELSE IF ~private_key_nonce.ok
             THEN Outcome(private_key_nonce, {Temp("keypair", "Keypair")})
        ELSE IF ~seed_phrase_nonce.ok
             THEN Outcome(seed_phrase_nonce, {Temp("keypair", "Keypair")})
        ELSE IF ~salt.ok THEN Outcome(salt, {Temp("keypair", "Keypair")})
        ELSE IF ~encrypted_private_key.ok
             THEN Outcome(encrypted_private_key,
                          KeyTemps \cup {Temp("keypair", "Keypair")})
        ELSE IF ~encrypted_seed_phrase.ok
             THEN Outcome(encrypted_seed_phrase,
                          KeyTemps \cup {Temp("keypair", "Keypair")})
        ELSE Outcome(Ok([account_type |-> account_type,
                         name |-> name,
                         pubkey |-> keypair.val.public,
                         encrypted_private_key |-> encrypted_private_key.val,
                         private_key_nonce |-> private_key_nonce.val,
                         encrypted_seed_phrase |-> encrypted_seed_phrase.val,
                         seed_phrase_nonce |-> seed_phrase_nonce.val,
                         salt |-> salt.val]),
                     KeyTemps \cup {Temp("keypair", "Keypair")})

new(name, password, account_type, phrase, rng, fault) ==
    LET private_key_nonce == rng_fill(rng, 1, NONCE_LENGTH, fault = "rng1")
        seed_phrase_nonce == rng_fill(rng, 2, NONCE_LENGTH, fault = "rng2")
        salt == rng_fill(rng, 3, CREDENTIAL_LEN, fault = "rng3")
        key == symmetric_key_from_password(password, salt.val)
        keypair == derive_from_phrase(phrase, account_type)
        encrypted_private_key ==
            encrypt(key, private_key_nonce.val, keypair.val.secret, fault = "enc1")
        encrypted_seed_phrase ==
            encrypt(key, seed_phrase_nonce.val, phrase, fault = "enc2")
    IN  IF ~private_key_nonce.ok THEN Outcome(private_key_nonce, {})
        ELSE IF ~seed_phrase_nonce.ok THEN Outcome(seed_phrase_nonce, {})
        ELSE IF ~salt.ok THEN Outcome(salt, {})
        ELSE IF ~keypair.ok THEN Outcome(keypair, KeyTemps)
        ELSE IF ~encrypted_private_key.ok
             THEN Outcome(encrypted_private_key,
                          KeyTemps \cup {Temp("keypair", "Keypair")})
        ELSE IF ~encrypted_seed_phrase.ok
             THEN Outcome(encrypted_seed_phrase,
                          KeyTemps \cup {Temp("keypair", "Keypair")})
        ELSE Outcome(Ok([account_type |-> account_type,
                         name |-> name,
                         pubkey |-> keypair.val.public,
                         encrypted_private_key |-> encrypted_private_key.val,
                         private_key_nonce |-> private_key_nonce.val,
                         encrypted_seed_phrase |-> encrypted_seed_phrase.val,
                         seed_phrase_nonce |-> seed_phrase_nonce.val,
                         salt |-> salt.val]),
                     KeyTemps \cup {Temp("keypair", "Keypair")})

\* a sign that reports every failure of the chain as InvalidPrivateKey
CryptoData_sign_one_error(inner, data, password) ==
    LET key == symmetric_key_from_password(password, inner.salt)
        plain == decrypt_secure(key, inner.private_key_nonce,
                                inner.encrypted_private_key)
        secret == IF plain.ok THEN SecretKey_from_bytes(plain.val) ELSE plain
    IN  IF ~secret.ok THEN Outcome(Err("InvalidPrivateKey"), KeyTemps)
        ELSE Outcome(Ok(Keypair_sign([secret |-> secret.val,
                                      public |-> inner.pubkey], data)),
                     KeyTemps \cup {Temp("private_seed", "SecVec"),
                                    Temp("secret", "SecretKey")})

\* a sign that decrypts the private key under the seed phrase's nonce
CryptoData_sign_wrong_nonce(inner, data, password) ==
    LET key == symmetric_key_from_password(password, inner.salt)
        plain == decrypt_secure(key, inner.seed_phrase_nonce,
                                inner.encrypted_private_key)
        secret == IF plain.ok THEN SecretKey_from_bytes(plain.val) ELSE plain
    IN  IF ~secret.ok THEN Outcome(secret, KeyTemps)
        ELSE Outcome(Ok(Keypair_sign([secret |-> secret.val,
                                      public |-> inner.pubkey], data)),
                     KeyTemps \cup {Temp("private_seed", "SecVec"),
                                    Temp("secret", "SecretKey")})

CryptoData_sign(inner, data, password) ==
    LET key == symmetric_key_from_password(password, inner.salt)
        plain == decrypt_secure(key, inner.private_key_nonce,
                                inner.encrypted_private_key)
        secret == IF plain.ok THEN SecretKey_from_bytes(plain.val) ELSE plain
    IN  IF ~plain.ok THEN Outcome(plain, KeyTemps)
        ELSE IF ~secret.ok
             THEN Outcome(secret, KeyTemps \cup {Temp("private_seed", "SecVec")})
        ELSE Outcome(Ok(Keypair_sign([secret |-> secret.val,
                                      public |-> inner.pubkey], data)),
                     KeyTemps \cup {Temp("private_seed", "SecVec"),
                                    Temp("secret", "SecretKey")})

sign(inner, data, password) == CryptoData_sign(inner, data, password)

decrypt_key_pair(encrypted_key, key, nonce) ==
    LET data == decrypt(key, nonce, encrypted_key)
        secret == IF data.ok THEN SecretKey_from_bytes(data.val) ELSE data
    IN  IF ~secret.ok THEN secret
        ELSE Ok([secret |-> secret.val, public |-> PublicFrom(secret.val)])

\* what decrypt_key_pair holds: its own cipher, and the plaintext Vec<u8>
\* that decrypt returned once the tag has verified
KeyPairTemps(encrypted_key, key, nonce) ==
    IF decrypt(key, nonce, encrypted_key).ok
    THEN {Temp("private_seed", "Vec"), Temp("secret", "SecretKey")}
    ELSE {}

\* String::from_utf8
Cont(b) == b \in 128..191

RECURSIVE IsUtf8(_)
IsUtf8(b) ==
    IF b = <<>> THEN TRUE
    ELSE LET h == b[1]
             n == Len(b)
         IN  IF h < 128 THEN IsUtf8(Tail(b))
             ELSE IF h \in 194..223
                  THEN n >= 2 /\ Cont(b[2]) /\ IsUtf8(SubSeq(b, 3, n))
             ELSE IF h \in 224..239
                  THEN /\ n >= 3 /\ Cont(b[2]) /\ Cont(b[3])
                       /\ (h = 224 => b[2] >= 160)
                       /\ (h = 237 => b[2] <= 159)
                       /\ IsUtf8(SubSeq(b, 4, n))
             ELSE IF h \in 240..244
                  THEN /\ n >= 4 /\ Cont(b[2]) /\ Cont(b[3]) /\ Cont(b[4])
                       /\ (h = 240 => b[2] >= 144)
                       /\ (h = 244 => b[2] <= 143)
                       /\ IsUtf8(SubSeq(b, 5, n))
             ELSE FALSE

\* a get_mnemonic that decrypts the private key instead of the seed phrase
get_mnemonic_private_key(inner, password) ==
    LET key == symmetric_key_from_password(password, inner.salt)
        x == decrypt(key, inner.private_key_nonce, inner.encrypted_private_key)
    IN  IF ~x.ok THEN Outcome(x, KeyTemps)
        ELSE IF ~IsUtf8(x.val)
             THEN Outcome(Err("FailedToDecryptData"),
                          KeyTemps \cup {Temp("mnemonic", "Vec")})
        ELSE Outcome(Ok(x.val), KeyTemps)

get_mnemonic(inner, password) ==
    LET key == symmetric_key_from_password(password, inner.salt)
        x == decrypt(key, inner.seed_phrase_nonce, inner.encrypted_seed_phrase)
    IN  IF ~x.ok THEN Outcome(x, KeyTemps)
        ELSE IF ~IsUtf8(x.val)
             THEN Outcome(Err("FailedToDecryptData"),
                          KeyTemps \cup {Temp("mnemonic", "Vec")})
        ELSE Outcome(Ok(x.val), KeyTemps)

get_key_pair(inner, password) ==
    LET key == symmetric_key_from_password(password, inner.salt)
    IN  Outcome(decrypt_key_pair(inner.encrypted_private_key, key,
                                 inner.private_key_nonce),
                KeyTemps \cup KeyPairTemps(inner.encrypted_private_key, key,
                                           inner.private_key_nonce))

\* a re-encryption that seals the public half of the decrypted key pair in
\* place of the secret seed
reencrypt_public_half(inner, old_password, new_password, rng, fault) ==
    LET new_private_key_nonce == rng_fill(rng, 1, NONCE_LENGTH, fault = "rng1")
        new_seed_phrase_nonce == rng_fill(rng, 2, NONCE_LENGTH, fault = "rng2")
        new_salt == rng_fill(rng, 3, CREDENTIAL_LEN, fault = "rng3")
        old_key == symmetric_key_from_password(old_password, inner.salt)
        new_key == symmetric_key_from_password(new_password, new_salt.val)
        key_pair == decrypt_key_pair(inner.encrypted_private_key, old_key,
                                     inner.private_key_nonce)
        new_encrypted_private_key ==
            encrypt(new_key, new_private_key_nonce.val, key_pair.val.public,
                    fault = "enc1")
        seed_phrase == decrypt_secure(old_key, inner.seed_phrase_nonce,
                                      inner.encrypted_seed_phrase)
        new_encrypted_seed_phrase ==
            encrypt(new_key, new_seed_phrase_nonce.val, seed_phrase.val,
                    fault = "enc2")
        t1 == KeyTemps \cup {Temp("new_derived_key", "GenericArray")}
        t2 == t1 \cup KeyPairTemps(inner.encrypted_private_key, old_key,
                                   inner.private_key_nonce)
        t3 == t2 \cup {Temp("mnemonic", "SecVec")}
    IN  IF ~new_private_key_nonce.ok THEN Outcome(new_private_key_nonce, {})
        ELSE IF ~new_seed_phrase_nonce.ok THEN Outcome(new_seed_phrase_nonce, {})
        ELSE IF ~new_salt.ok THEN Outcome(new_salt, {})
        ELSE IF ~key_pair.ok THEN Outcome(key_pair, t2)
        ELSE IF ~new_encrypted_private_key.ok
             THEN Outcome(new_encrypted_private_key, t2)
        ELSE IF ~seed_phrase.ok THEN Outcome(seed_phrase, t2)
        ELSE IF ~new_encrypted_seed_phrase.ok
             THEN Outcome(new_encrypted_seed_phrase, t3)
        ELSE Outcome(Ok([salt |-> new_salt.val,
                         encrypted_private_key |-> new_encrypted_private_key.val,
                         private_key_nonce |-> new_private_key_nonce.val,
                         encrypted_seed_phrase |-> new_encrypted_seed_phrase.val,
                         seed_phrase_nonce |-> new_seed_phrase_nonce.val]), t3)

\* lines 118-160 of change_password: the fresh salt and nonces and the two
\* ciphertexts re-encrypted under the new key, or the first error
reencrypt(inner, old_password, new_password, rng, fault) ==
    LET new_private_key_nonce == rng_fill(rng, 1, NONCE_LENGTH, fault = "rng1")
        new_seed_phrase_nonce == rng_fill(rng, 2, NONCE_LENGTH, fault = "rng2")
        new_salt == rng_fill(rng, 3, CREDENTIAL_LEN, fault = "rng3")
        old_key == symmetric_key_from_password(old_password, inner.salt)
        new_key == symmetric_key_from_password(new_password, new_salt.val)
        key_pair == decrypt_key_pair(inner.encrypted_private_key, old_key,
                                     inner.private_key_nonce)
        new_encrypted_private_key ==
            encrypt(new_key, new_private_key_nonce.val, key_pair.val.secret,
                    fault = "enc1")
        seed_phrase == decrypt_secure(old_key, inner.seed_phrase_nonce,
                                      inner.encrypted_seed_phrase)
        new_encrypted_seed_phrase ==
            encrypt(new_key, new_seed_phrase_nonce.val, seed_phrase.val,
                    fault = "enc2")
        t1 == KeyTemps \cup {Temp("new_derived_key", "GenericArray")}
        t2 == t1 \cup KeyPairTemps(inner.encrypted_private_key, old_key,
                                   inner.private_key_nonce)
        t3 == t2 \cup {Temp("mnemonic", "SecVec")}
    IN  IF ~new_private_key_nonce.ok THEN Outcome(new_private_key_nonce, {})
        ELSE IF ~new_seed_phrase_nonce.ok THEN Outcome(new_seed_phrase_nonce, {})
        ELSE IF ~new_salt.ok THEN Outcome(new_salt, {})
        ELSE IF ~key_pair.ok THEN Outcome(key_pair, t2)
        ELSE IF ~new_encrypted_private_key.ok
             THEN Outcome(new_encrypted_private_key, t2)
        ELSE IF ~seed_phrase.ok THEN Outcome(seed_phrase, t2)
        ELSE IF ~new_encrypted_seed_phrase.ok
             THEN Outcome(new_encrypted_seed_phrase, t3)
        ELSE Outcome(Ok([salt |-> new_salt.val,
                         encrypted_private_key |-> new_encrypted_private_key.val,
                         private_key_nonce |-> new_private_key_nonce.val,
                         encrypted_seed_phrase |-> new_encrypted_seed_phrase.val,
                         seed_phrase_nonce |-> new_seed_phrase_nonce.val]), t3)

\* a save that forgets the salt
save_without_salt(inner, fresh) ==
    [inner EXCEPT !.encrypted_private_key = fresh.encrypted_private_key,
                  !.private_key_nonce = fresh.private_key_nonce,
                  !.encrypted_seed_phrase = fresh.encrypted_seed_phrase,
                  !.seed_phrase_nonce = fresh.seed_phrase_nonce]

\* a save that keeps the old seed phrase ciphertext and its nonce
save_private_key_only(inner, fresh) ==
    [inner EXCEPT !.salt = fresh.salt,
                  !.encrypted_private_key = fresh.encrypted_private_key,
                  !.private_key_nonce = fresh.private_key_nonce]

\* lines 162-169 of change_password: "save new data"
save(inner, fresh) ==
    [inner EXCEPT !.salt = fresh.salt,
                  !.encrypted_private_key = fresh.encrypted_private_key,
                  !.private_key_nonce = fresh.private_key_nonce,
                  !.encrypted_seed_phrase = fresh.encrypted_seed_phrase,
                  !.seed_phrase_nonce = fresh.seed_phrase_nonce]

\* a change_password that stores the re-encrypted private key before the
\* seed phrase has been re-encrypted
change_password_early_save(inner, old_password, new_password, rng, fault) ==
    LET fresh == reencrypt(inner, old_password, new_password, rng, fault)
        first == reencrypt(inner, old_password, new_password, rng, "none")
    IN  IF fresh.ok
        THEN [out |-> [fresh EXCEPT !.val = <<>>], inner |-> save(inner, fresh.val)]
        ELSE [out |-> fresh,
              inner |-> IF fault = "enc2" /\ first.ok
                        THEN [inner EXCEPT
                                 !.encrypted_private_key =
                                     first.val.encrypted_private_key,
                                 !.private_key_nonce = first.val.private_key_nonce]
                        ELSE inner]

\* a change_password that stores the new salt as soon as it is drawn
change_password_salt_first(inner, old_password, new_password, rng, fault) ==
    LET fresh == reencrypt(inner, old_password, new_password, rng, fault)
        new_salt == rng_fill(rng, 3, CREDENTIAL_LEN,
                             fault \in {"rng1", "rng2", "rng3"})
    IN  IF fresh.ok
        THEN [out |-> [fresh EXCEPT !.val = <<>>], inner |-> save(inner, fresh.val)]
        ELSE [out |-> fresh,
              inner |-> IF new_salt.ok THEN [inner EXCEPT !.salt = new_salt.val]
                        ELSE inner]

\* the result of change_password and the record it leaves in self.inner
change_password(inner, old_password, new_password, rng, fault) ==
    LET fresh == reencrypt(inner, old_password, new_password, rng, fault)
    IN  IF fresh.ok
        THEN [out |-> [fresh EXCEPT !.val = <<>>], inner |-> save(inner, fresh.val)]
        ELSE [out |-> fresh, inner |-> inner]

EncryptedKey_name(inner) == inner.name

EncryptedKey_public_key(inner) == inner.pubkey

EncryptedKey_account_type(inner) == inner.account_type

----------------------------------------------------------------------------
(* The record codec.  A JSON document is the mapping from field names to    *)
(* string values that serde_json reads and writes; the hex text of a field  *)
(* is a sequence of characters.                                             *)

HexChars == <<"0", "1", "2", "3", "4", "5", "6", "7",
              "8", "9", "a", "b", "c", "d", "e", "f">>

UpperChars == <<"0", "1", "2", "3", "4", "5", "6", "7",
                "8", "9", "A", "B", "C", "D", "E", "F">>

HexTable ==
    [c \in {HexChars[v] : v \in 1..16} \cup {UpperChars[v] : v \in 1..16} |->
        (CHOOSE v \in 1..16 : HexChars[v] = c \/ UpperChars[v] = c) - 1]

\* the value of a hex digit, -1 for any other character
HexVal(c) == IF c \in DOMAIN HexTable THEN HexTable[c] ELSE -1

\* an encoder that drops the leading zero of a byte below 16
RECURSIVE hex_encode_unpadded(_)
hex_encode_unpadded(bytes) ==
    IF bytes = <<>> THEN <<>>
    ELSE (IF bytes[1] < 16 THEN <<HexChars[bytes[1] + 1]>>
          ELSE <<HexChars[(bytes[1] \div 16) + 1], HexChars[(bytes[1] % 16) + 1]>>)
         \o hex_encode_unpadded(Tail(bytes))

\* hex::encode: two lowercase digits per byte, high nibble first
hex_encode(bytes) ==
    [k \in 1..(2 * Len(bytes)) |->
        IF k % 2 = 1 THEN HexChars[(bytes[(k + 1) \div 2] \div 16) + 1]
        ELSE HexChars[(bytes[k \div 2] % 16) + 1]]

\* hex::decode: an even number of digits of either case
hex_decode(string) ==
    IF Len(string) % 2 = 1 THEN Err("codec")
    ELSE IF \E k \in 1..Len(string) : HexVal(string[k]) < 0 THEN Err("codec")
    ELSE Ok([j \in 1..(Len(string) \div 2) |->
               16 * HexVal(string[2 * j - 1]) + HexVal(string[2 * j])])

hex_encode_serialize(data) == hex_encode(data)

hex_encode_deserialize(string) == hex_decode(string)

hex_pubkey_serialize(data) == hex_encode(data)

hex_pubkey_deserialize(string) ==
    LET x == hex_encode_deserialize(string)
    IN  IF ~x.ok THEN x ELSE PublicKey_from_bytes(x.val)

hex_nonce_serialize(data) == hex_encode_serialize(data)

\* a nonce decoder without the length check
hex_nonce_deserialize_any_length(string) == hex_encode_deserialize(string)

hex_nonce_deserialize(string) ==
    LET x == hex_encode_deserialize(string)
    IN  IF ~x.ok THEN x
        ELSE IF Len(x.val) # NONCE_LENGTH THEN Err("codec")
        ELSE Ok(x.val)

MnemonicType_deserialize(string) ==
    IF string \in Kinds THEN Ok(string) ELSE Err("codec")

FieldNames == {"account_type", "name", "pubkey", "encrypted_private_key",
               "private_key_nonce", "encrypted_seed_phrase",
               "seed_phrase_nonce", "salt"}

as_json(inner) ==
    [account_type |-> inner.account_type,
     name |-> inner.name,
     pubkey |-> hex_pubkey_serialize(inner.pubkey),
     encrypted_private_key |-> hex_encode_serialize(inner.encrypted_private_key),
     private_key_nonce |-> hex_nonce_serialize(inner.private_key_nonce),
     encrypted_seed_phrase |-> hex_encode_serialize(inner.encrypted_seed_phrase),
     seed_phrase_nonce |-> hex_nonce_serialize(inner.seed_phrase_nonce),
     salt |-> hex_encode_serialize(inner.salt)]

from_reader(reader) ==
    IF ~(FieldNames \subseteq DOMAIN reader) THEN Outcome(Err("codec"), {})
    ELSE LET account_type == MnemonicType_deserialize(reader.account_type)
             pubkey == hex_pubkey_deserialize(reader.pubkey)
             encrypted_private_key ==
                 hex_encode_deserialize(reader.encrypted_private_key)
             private_key_nonce == hex_nonce_deserialize(reader.private_key_nonce)
             encrypted_seed_phrase ==
                 hex_encode_deserialize(reader.encrypted_seed_phrase)
             seed_phrase_nonce == hex_nonce_deserialize(reader.seed_phrase_nonce)
             salt == hex_encode_deserialize(reader.salt)
         IN  IF /\ account_type.ok /\ pubkey.ok /\ encrypted_private_key.ok
                /\ private_key_nonce.ok /\ encrypted_seed_phrase.ok
                /\ seed_phrase_nonce.ok /\ salt.ok
             THEN Outcome(Ok([account_type |-> account_type.val,
                              name |-> reader.name,
                              pubkey |-> pubkey.val,
                              encrypted_private_key |-> encrypted_private_key.val,
                              private_key_nonce |-> private_key_nonce.val,
                              encrypted_seed_phrase |-> encrypted_seed_phrase.val,
                              seed_phrase_nonce |-> seed_phrase_nonce.val,
                              salt |-> salt.val]), {})
             ELSE Outcome(Err("codec"), {})

----------------------------------------------------------------------------
(* The documents a reader can hold: the vault's own serialization and       *)
(* documents that differ from it in one field.                              *)

ToUpper(string) ==
    [k \in 1..Len(string) |->
        IF HexVal(string[k]) >= 10 THEN UpperChars[HexVal(string[k]) + 1]
        ELSE string[k]]

ForeignSecret == [i \in 1..SECRET_KEY_LENGTH |-> (200 + i) % 256]

ShortSalt == RandBytes(9, 16)

Without(doc, f) == [g \in (DOMAIN doc) \ {f} |-> doc[g]]

Documents == {"own", "upper", "private_key_nonce_11", "private_key_nonce_13",
              "seed_phrase_nonce_11", "seed_phrase_nonce_0", "odd_hex",
              "bad_hex", "salt_16", "foreign_pubkey", "pubkey_31",
              "bad_account_type", "no_salt"}

Document(inner, which) ==
    LET doc == as_json(inner)
    IN  CASE which = "own" -> doc
          [] which = "upper" ->
                [doc EXCEPT !.private_key_nonce = ToUpper(@),
                            !.seed_phrase_nonce = ToUpper(@),
                            !.salt = ToUpper(@), !.pubkey = ToUpper(@),
                            !.encrypted_private_key = ToUpper(@),
                            !.encrypted_seed_phrase = ToUpper(@)]
          [] which = "private_key_nonce_11" ->
                [doc EXCEPT !.private_key_nonce = SubSeq(@, 1, 22)]
          [] which = "private_key_nonce_13" ->
                [doc EXCEPT !.private_key_nonce = @ \o <<"0", "7">>]
          [] which = "seed_phrase_nonce_11" ->
                [doc EXCEPT !.seed_phrase_nonce = SubSeq(@, 1, 22)]
          [] which = "seed_phrase_nonce_0" ->
                [doc EXCEPT !.seed_phrase_nonce = <<>>]
          [] which = "odd_hex" ->
                [doc EXCEPT !.encrypted_private_key = Tail(@)]
          [] which = "bad_hex" ->
                [doc EXCEPT !.encrypted_seed_phrase = <<"z", "z">> \o @]
          [] which = "salt_16" ->
                [doc EXCEPT !.salt = hex_encode_serialize(ShortSalt)]
          [] which = "foreign_pubkey" ->
                [doc EXCEPT !.pubkey =
                    hex_pubkey_serialize(PublicFrom(ForeignSecret))]
          [] which = "pubkey_31" -> [doc EXCEPT !.pubkey = SubSeq(@, 1, 62)]
          [] which = "bad_account_type" -> [doc EXCEPT !.account_type = "Ledger"]
          [] which = "no_salt" -> Without(doc, "salt")

----------------------------------------------------------------------------
(* The state machine *)

NoBytes == <<>>

Idle == [op |-> "init", password |-> NoBytes, data |-> NoBytes, arg |-> "",
         rng |-> 0, kind |-> "", out |-> Outcome(Ok(NoBytes), {})]

\* a call, its arguments and its result; rng is the output stream the random
\* source gave to the call (0 when the call draws nothing) and kind the
\* mnemonic kind passed to new
Call(op, password, data, arg, out) ==
    [op |-> op, password |-> password, data |-> data, arg |-> arg,
     rng |-> 0, kind |-> "", out |-> out]

\* the outcome without the value, where the value is the vault itself
Plain(out) == [out EXCEPT !.val = NoBytes]

Init ==
    /\ vault = NoVault
    /\ ghost = [origin |-> "none", password |-> NoBytes, old |-> NoBytes,
                changed |-> FALSE, phrase |-> NoBytes, account_type |-> ""]
    /\ last = Idle

HasVault == vault # NoVault

\* calls are synchronous: the next call starts once the caller has taken the
\* result of the previous one
Ready == last.op = Idle.op

New ==
    \E name \in Names, password \in Passwords, mnemonic \in Mnemonics,
       rng \in 1..NumRand, fault \in Faults :
        /\ ~HasVault
        /\ Ready
        /\ fault # "none" => rng = 1
        /\ LET account_type == mnemonic[1]
               phrase == mnemonic[2]
               out == new(name, password, account_type, phrase, rng, fault)
           IN  /\ last' = [Call("new", password, phrase, fault, Plain(out))
                               EXCEPT !.rng = rng, !.kind = account_type]
               /\ IF out.ok
                  THEN /\ vault' = out.val
                       /\ ghost' = [origin |-> "new", password |-> password,
                                    old |-> NoBytes, changed |-> FALSE,
                                    phrase |-> phrase,
                                    account_type |-> account_type]
                  ELSE UNCHANGED <<vault, ghost>>

Sign ==
    \E data \in DataSet, password \in Passwords :
        /\ HasVault
        /\ Ready
        /\ last' = Call("sign", password, data, "", sign(vault, data, password))
        /\ UNCHANGED <<vault, ghost>>

GetMnemonic ==
    \E password \in Passwords :
        /\ HasVault
        /\ Ready
        /\ last' = Call("get_mnemonic", password, NoBytes, "",
                        get_mnemonic(vault, password))
        /\ UNCHANGED <<vault, ghost>>

GetKeyPair ==
    \E password \in Passwords :
        /\ HasVault
        /\ Ready
        /\ last' = Call("get_key_pair", password, NoBytes, "",
                        get_key_pair(vault, password))
        /\ UNCHANGED <<vault, ghost>>

ChangePassword ==
    \E old_password \in Passwords, new_password \in Passwords,
       rng \in 1..NumRand, fault \in Faults :
        /\ HasVault
        /\ Ready
        /\ fault # "none" => rng = 1
        /\ LET got == change_password(vault, old_password, new_password,
                                      rng, fault)
           IN  /\ last' = [Call("change_password", old_password,
                                    new_password, fault, got.out)
                               EXCEPT !.rng = rng]
               /\ vault' = got.inner
               /\ ghost' = IF got.out.ok
                           THEN [ghost EXCEPT !.password = new_password,
                                              !.old = old_password,
                                              !.changed = TRUE]
                           ELSE ghost

FromReader ==
    \E which \in Documents :
        /\ HasVault
        /\ Ready
        /\ LET out == from_reader(Document(vault, which))
           IN  /\ last' = Call("from_reader", NoBytes, NoBytes, which, Plain(out))
               /\ IF out.ok
                  THEN /\ vault' = out.val
                       /\ ghost' = IF out.val = vault THEN ghost
                                   ELSE [ghost EXCEPT !.origin = "reader",
                                                      !.changed = FALSE,
                                                      !.old = NoBytes]
                  ELSE UNCHANGED <<vault, ghost>>

AsJson ==
    /\ HasVault
    /\ Ready
    /\ last' = Call("as_json", NoBytes, NoBytes, "",
                    Outcome(Ok(as_json(vault).salt), {}))
    /\ UNCHANGED <<vault, ghost>>

Name ==
    /\ HasVault
    /\ Ready
    /\ last' = Call("name", NoBytes, NoBytes, "",
                    Outcome(Ok(EncryptedKey_name(vault)), {}))
    /\ UNCHANGED <<vault, ghost>>

PublicKey ==
    /\ HasVault
    /\ Ready
    /\ last' = Call("public_key", NoBytes, NoBytes, "",
                    Outcome(Ok(EncryptedKey_public_key(vault)), {}))
    /\ UNCHANGED <<vault, ghost>>

AccountType ==
    /\ HasVault
    /\ Ready
    /\ last' = Call("account_type", NoBytes, NoBytes, "",
                    Outcome(Ok(EncryptedKey_account_type(vault)), {}))
    /\ UNCHANGED <<vault, ghost>>

Resume ==
    /\ ~Ready
    /\ last' = Idle
    /\ UNCHANGED <<vault, ghost>>

Next ==
    \/ Resume
    \/ New
    \/ Sign
    \/ GetMnemonic
    \/ GetKeyPair
    \/ ChangePassword
    \/ FromReader
    \/ AsJson
    \/ Name
    \/ PublicKey
    \/ AccountType

Spec == Init /\ [][Next]_vars

----------------------------------------------------------------------------
(* Properties *)

PasswordOps == {"sign", "get_mnemonic", "get_key_pair"}

\* both ciphertexts of the record open under the key of this password
OpensUnder(inner, password) ==
    /\ get_key_pair(inner, password).ok
    /\ get_mnemonic(inner, password).ok

\* C1: change_password is all-or-nothing.  A call that returns an error
\* leaves every field of the record as it was; a call that succeeds leaves a
\* record whose salt, nonces and ciphertexts all belong to the new password,
\* never a mixture of old and new fields.
C1_AllOrNothing ==
    [][last'.op = "change_password" =>
          IF last'.out.ok
          THEN /\ OpensUnder(vault', last'.data)
               /\ vault'.name = vault.name
               /\ vault'.account_type = vault.account_type
               /\ vault'.pubkey = vault.pubkey
          ELSE vault' = vault]_vars

\* a change_password that failed at its last fallible step, the second
\* re-encryption, after the first one had succeeded
C1_Witness ==
    /\ last.op = "change_password"
    /\ last.arg = "enc2"
    /\ last.out.err = "FailedToEncryptData"
    /\ last.password = ghost.password

\* C2 as stated: after a successful change_password(old, new), a password
\* operation called with new succeeds and one called with old fails, for
\* every pair (old, new).
C2_NewOpensOldFails ==
    (ghost.changed /\ last.op \in PasswordOps) =>
        /\ last.password = ghost.password => last.out.ok
        /\ last.password = ghost.old => ~last.out.ok

\* C2 amended: after a successful change_password(old, new), a password
\* operation called with new succeeds, and one called with old fails
\* whenever old differs from new.
C2_NewOpensOldFailsIfDifferent ==
    (ghost.changed /\ last.op \in PasswordOps) =>
        /\ last.password = ghost.password => last.out.ok
        /\ (last.password = ghost.old /\ ghost.old # ghost.password)
              => ~last.out.ok

\* a sign with the replaced password after the password was changed to a
\* different one
C2_Witness ==
    /\ ghost.changed
    /\ ghost.old # ghost.password
    /\ last.op = "sign"
    /\ last.password = ghost.old
    /\ ~last.out.ok

\* C3: on a vault made by new, sign with any password other than the
\* vault's returns FailedToDecryptData and no signature, whatever the data
\* and whichever wrong password it is.
C3_WrongPasswordFails ==
    (ghost.origin = "new" /\ last.op = "sign"
        /\ last.password # ghost.password) =>
        /\ ~last.out.ok
        /\ last.out.err = "FailedToDecryptData"
        /\ last.out.val = NoBytes

\* a sign with a wrong password on a vault fresh from new
C3_Witness ==
    /\ ghost.origin = "new"
    /\ ~ghost.changed
    /\ last.op = "sign"
    /\ last.password # ghost.password
    /\ last.out.err = "FailedToDecryptData"

\* C4: on a vault made by new from (phrase, kind), sign with the vault's
\* password returns a 64-byte signature that verifies under public_key(),
\* and public_key() is the public half of the pair derived from
\* (phrase, kind).
C4_SignVerifies ==
    (ghost.origin = "new" /\ last.op = "sign"
        /\ last.password = ghost.password) =>
        /\ last.out.ok
        /\ Len(last.out.val) = SIGNATURE_LENGTH
        /\ Verify(EncryptedKey_public_key(vault), last.data, last.out.val)
        /\ EncryptedKey_public_key(vault) =
              derive_from_phrase(ghost.phrase, ghost.account_type).val.public

\* a signature over non-empty data from a vault fresh from new
C4_Witness ==
    /\ ghost.origin = "new"
    /\ ~ghost.changed
    /\ last.op = "sign"
    /\ last.password = ghost.password
    /\ last.data # NoBytes
    /\ last.out.ok

\* C5: on a vault made by new, through any sequence of successful and
\* failed password changes, get_mnemonic with the current password returns
\* the original phrase and with any other password fails with
\* FailedToDecryptData.
C5_MnemonicRoundTrip ==
    (ghost.origin = "new" /\ last.op = "get_mnemonic") =>
        IF last.password = ghost.password
        THEN last.out.ok /\ last.out.val = ghost.phrase
        ELSE ~last.out.ok /\ last.out.err = "FailedToDecryptData"

\* the mnemonic exported after a password change
C5_Witness ==
    /\ ghost.origin = "new"
    /\ ghost.changed
    /\ ghost.old # ghost.password
    /\ last.op = "get_mnemonic"
    /\ last.out.ok
    /\ last.out.val = ghost.phrase

\* C6: reading back the serialization of a record made by new and
\* change_password succeeds and yields the same record in all eight fields.
C6_CodecRoundTrip ==
    [][(ghost.origin = "new" /\ last'.op = "from_reader" /\ last'.arg = "own")
          => (last'.out.ok /\ vault' = vault)]_vars

\* a record read back after a password change
C6_Witness ==
    /\ ghost.origin = "new"
    /\ ghost.changed
    /\ last.op = "from_reader"
    /\ last.arg = "own"
    /\ last.out.ok

\* the document holds a nonce whose hex text decodes to other than 12 bytes
BadNonce(doc) ==
    \E f \in {"private_key_nonce", "seed_phrase_nonce"} :
        /\ f \in DOMAIN doc
        /\ hex_decode(doc[f]).ok
        /\ Len(hex_decode(doc[f]).val) # NONCE_LENGTH

\* C7: from_reader rejects with a codec error, producing no vault, every
\* document in which a nonce decodes to a length other than 12; so both
\* nonces of every vault are 12 bytes long.
C7_NonceLength ==
    [][/\ (last'.op = "from_reader" /\ BadNonce(Document(vault, last'.arg)))
            => (~last'.out.ok /\ last'.out.err = "codec" /\ vault' = vault)
       /\ vault' # NoVault =>
            /\ Len(vault'.private_key_nonce) = NONCE_LENGTH
            /\ Len(vault'.seed_phrase_nonce) = NONCE_LENGTH]_vars

\* a document with a 13-byte nonce was refused
C7_Witness ==
    /\ last.op = "from_reader"
    /\ last.arg = "private_key_nonce_13"
    /\ BadNonce(Document(vault, last.arg))
    /\ ~last.out.ok

\* C8: in every vault, whenever the private key decrypts, the public key of
\* the decrypted seed is the stored pubkey, and a signature that sign
\* returns verifies under public_key().
C8_Authenticity ==
    HasVault =>
        /\ \A password \in Passwords :
              get_key_pair(vault, password).ok =>
                 get_key_pair(vault, password).val.public
                    = EncryptedKey_public_key(vault)
        /\ (last.op = "sign" /\ last.out.ok) =>
              Verify(EncryptedKey_public_key(vault), last.data, last.out.val)

\* C9: the salt of every vault is 32 bytes long.
C9_SaltLength == HasVault => Len(vault.salt) = CREDENTIAL_LEN

\* C10: when new, sign, get_mnemonic, get_key_pair or change_password
\* returns, every secret-bearing temporary it created has been overwritten.
C10_NoSecretLeftBehind ==
    last.op \in {"new", "sign", "get_mnemonic", "get_key_pair",
                 "change_password"} => last.out.leaked = {}


\* the operations that draw a fresh salt and fresh nonces for the record
Producers == {"new", "change_password"}

\* C11 as stated: in every record produced by new or by a successful
\* change_password, private_key_nonce differs from seed_phrase_nonce.
C11_NoncesDiffer ==
    [][(last'.op \in Producers /\ last'.out.ok) =>
          vault'.private_key_nonce # vault'.seed_phrase_nonce]_vars

\* C11 amended: in every record produced by new or by a successful
\* change_password, private_key_nonce is the first and seed_phrase_nonce the
\* second 12-byte output the random source gave to that call, with no
\* comparison between them; so the two nonces differ exactly when those two
\* outputs differ.
C11_NoncesAreTheDraws ==
    [][(last'.op \in Producers /\ last'.out.ok) =>
          LET first == rng_fill(last'.rng, 1, NONCE_LENGTH, FALSE).val
              second == rng_fill(last'.rng, 2, NONCE_LENGTH, FALSE).val
          IN  /\ vault'.private_key_nonce = first
              /\ vault'.seed_phrase_nonce = second
              /\ (vault'.private_key_nonce # vault'.seed_phrase_nonce)
                    <=> (first # second)]_vars

\* a password change whose two nonce draws differed
C11_Witness ==
    /\ last.op = "change_password"
    /\ last.out.ok
    /\ rng_fill(last.rng, 1, NONCE_LENGTH, FALSE)
          # rng_fill(last.rng, 2, NONCE_LENGTH, FALSE)
    /\ vault.private_key_nonce # vault.seed_phrase_nonce


\* the operations that take the vault by shared reference
ReadOnlyOps == {"sign", "get_mnemonic", "get_key_pair", "as_json", "name",
                "public_key", "account_type"}

\* C12: sign, get_mnemonic, get_key_pair, as_json, name, public_key and
\* account_type leave every field of the record as it was, whether they
\* succeed or fail; the record of an existing vault changes only in a
\* successful change_password (from_reader is a constructor: what it returns
\* is another vault, which takes the place of the one it was read from).
C12_ReadOnly ==
    [][/\ last'.op \in ReadOnlyOps => vault' = vault
       /\ (HasVault /\ vault' # vault) =>
             \/ last'.op = "change_password" /\ last'.out.ok
             \/ last'.op = "from_reader" /\ last'.out.ok]_vars

\* a sign that failed on a vault whose password had been changed, after
\* which the record still opens under its password
C12_Witness ==
    /\ last.op = "sign"
    /\ ~last.out.ok
    /\ ghost.origin = "new"
    /\ ghost.changed
    /\ OpensUnder(vault, ghost.password)


\* the injected failures of the three random draws of a call
RngFaults == {"rng1", "rng2", "rng3"}

\* C13: new returns no vault when any of its steps fails.  A failure of any
\* of the three random draws yields FailedToGenerateRandomBytes, also when
\* the mnemonic is invalid; with the draws succeeding, an invalid mnemonic
\* yields the error of the deriver as the deriver returned it; and new
\* succeeds only when no step failed.
C13_NewErrors ==
    last.op = "new" =>
        LET keypair == derive_from_phrase(last.data, last.kind)
        IN  /\ ~last.out.ok => vault = NoVault
            /\ last.arg \in RngFaults =>
                  (~last.out.ok /\ last.out.err = "FailedToGenerateRandomBytes")
            /\ (last.arg \notin RngFaults /\ ~keypair.ok) =>
                  (~last.out.ok /\ last.out.err = keypair.err)
            /\ last.out.ok <=> (last.arg = "none" /\ keypair.ok)

\* a new whose second random draw failed on a mnemonic the deriver rejects
C13_Witness ==
    /\ last.op = "new"
    /\ last.arg = "rng2"
    /\ ~derive_from_phrase(last.data, last.kind).ok
    /\ last.out.err = "FailedToGenerateRandomBytes"
    /\ vault = NoVault


\* C14: in every vault reached from new through successful and failed
\* change_password calls, encrypted_private_key and encrypted_seed_phrase
\* both open under the key derived from the current password and the
\* current salt; and for every password Q and all data, sign(data, Q),
\* get_key_pair(Q) and get_mnemonic(Q) either all succeed or all fail.
C14_SameKey ==
    (HasVault /\ ghost.origin = "new") =>
        LET key == symmetric_key_from_password(ghost.password, vault.salt)
        IN  /\ decrypt(key, vault.private_key_nonce,
                       vault.encrypted_private_key).ok
            /\ decrypt(key, vault.seed_phrase_nonce,
                       vault.encrypted_seed_phrase).ok
            /\ \A Q \in Passwords :
                  /\ get_key_pair(vault, Q).ok = get_mnemonic(vault, Q).ok
                  /\ \A data \in DataSet :
                        sign(vault, data, Q).ok = get_key_pair(vault, Q).ok

\* a get_key_pair that succeeded after a password change that followed a
\* failed one, on a record whose seed phrase opens under the same password
\* and not under the replaced one
C14_Witness ==
    /\ ghost.origin = "new"
    /\ ghost.changed
    /\ ghost.old # ghost.password
    /\ last.op = "get_key_pair"
    /\ last.out.ok
    /\ get_mnemonic(vault, last.password).ok
    /\ ~get_mnemonic(vault, ghost.old).ok


\* C15: a successful change_password(old, new) changes only salt,
\* private_key_nonce, encrypted_private_key, seed_phrase_nonce and
\* encrypted_seed_phrase: name, account_type and pubkey keep their values,
\* and get_key_pair(new) after the call returns the secret seed and the
\* public key that get_key_pair(old) returned before it.
C15_ChangeKeepsKeyPair ==
    [][(last'.op = "change_password" /\ last'.out.ok) =>
          LET before == get_key_pair(vault, last'.password)
              after == get_key_pair(vault', last'.data)
          IN  /\ DOMAIN vault' = DOMAIN vault
              /\ vault'.name = vault.name
              /\ vault'.account_type = vault.account_type
              /\ vault'.pubkey = vault.pubkey
              /\ before.ok
              /\ after.ok
              /\ after.val.secret = before.val.secret
              /\ after.val.public = before.val.public]_vars

\* a password change to a different password after which get_key_pair with
\* the new password returns the pair the vault was created from
C15_Witness ==
    /\ last.op = "change_password"
    /\ last.out.ok
    /\ last.password # last.data
    /\ ghost.origin = "new"
    /\ get_key_pair(vault, last.data).ok
    /\ get_key_pair(vault, last.data).val =
          derive_from_phrase(ghost.phrase, ghost.account_type).val

=============================================================================
